---------------------------- MODULE Spec2Model ----------------------------
(***************************************************************************)
(* Model of jiometry-cli's rotate command: the point/center parsers and    *)
(* the rotation transform of src/assets/ts/rotate.ts (lines 13-103) and    *)
(* the command handler of the same file (lines 118-152).                   *)
(*                                                                         *)
(* Strings are sequences of one-character strings.  A JavaScript number is *)
(* an IEEE-754 binary64 value: NaN, an infinity, or sign * m * 2^e with m  *)
(* a natural number held as a little-endian sequence of limbs (base 2^14), *)
(* so that the 53-bit significand and its rounding are kept exactly.       *)
(* The sign of zero is not tracked (JavaScript's == does not see it), and  *)
(* neither exponent overflow nor subnormals are modelled: no drawn input   *)
(* comes near either.                                                      *)
(*                                                                         *)
(* Intermediate values that the source names once and reads several times  *)
(* are passed on as operator parameters.                                   *)
(***************************************************************************)
EXTENDS Integers, Sequences, FiniteSets, TLC

(***************************************************************************)
(* Natural numbers of any size: little-endian limbs, no leading zero limb. *)
(***************************************************************************)
Base == 128 * 128

RECURSIVE Pow2(_)
Pow2(n) == IF n = 0 THEN 1 ELSE 2 * Pow2(n - 1)

RECURSIVE BNNorm(_)
BNNorm(a) ==
  IF a = <<>> THEN <<>>
  ELSE IF a[Len(a)] = 0 THEN BNNorm(SubSeq(a, 1, Len(a) - 1))
  ELSE a

BNOfInt(n) ==
  IF n = 0 THEN <<>>
  ELSE IF n < Base THEN <<n>>
  ELSE BNNorm(<<n % Base, (n \div Base) % Base, n \div (Base * Base)>>)

Limb(a, i) == IF i <= Len(a) THEN a[i] ELSE 0

RECURSIVE BNAddC(_, _, _, _)
BNAddC(a, b, i, carry) ==
  IF i > Len(a) /\ i > Len(b)
  THEN IF carry = 0 THEN <<>> ELSE <<carry>>
  ELSE LET t == Limb(a, i) + Limb(b, i) + carry
       IN  <<t % Base>> \o BNAddC(a, b, i + 1, t \div Base)

BNAdd(a, b) == BNAddC(a, b, 1, 0)

\* a - b for a >= b
RECURSIVE BNSubC(_, _, _, _)
BNSubC(a, b, i, borrow) ==
  IF i > Len(a) THEN <<>>
  ELSE LET t == Limb(a, i) - Limb(b, i) - borrow
       IN  IF t < 0 THEN <<t + Base>> \o BNSubC(a, b, i + 1, 1)
           ELSE <<t>> \o BNSubC(a, b, i + 1, 0)

BNSub(a, b) == BNNorm(BNSubC(a, b, 1, 0))

\* -1, 0 or 1 as a < b, a = b, a > b
RECURSIVE BNCmpAt(_, _, _)
BNCmpAt(a, b, i) ==
  IF i = 0 THEN 0
  ELSE IF a[i] < b[i] THEN -1
  ELSE IF a[i] > b[i] THEN 1
  ELSE BNCmpAt(a, b, i - 1)

BNCmp(a, b) ==
  IF Len(a) < Len(b) THEN -1
  ELSE IF Len(a) > Len(b) THEN 1
  ELSE BNCmpAt(a, b, Len(a))

\* a * k for 0 <= k <= Base
RECURSIVE BNMulSmallC(_, _, _, _)
BNMulSmallC(a, k, i, carry) ==
  IF i > Len(a)
  THEN IF carry = 0 THEN <<>> ELSE <<carry % Base>> \o
         (IF carry \div Base = 0 THEN <<>> ELSE <<carry \div Base>>)
  ELSE LET t == a[i] * k + carry
       IN  <<t % Base>> \o BNMulSmallC(a, k, i + 1, t \div Base)

BNMulSmall(a, k) == BNNorm(BNMulSmallC(a, k, 1, 0))

\* a * Base^n
BNShlLimbs(a, n) == IF a = <<>> THEN <<>> ELSE [i \in 1..n |-> 0] \o a

RECURSIVE BNMulAt(_, _, _)
BNMulAt(a, b, i) ==
  IF i > Len(b) THEN <<>>
  ELSE BNAdd(BNShlLimbs(BNMulSmall(a, b[i]), i - 1), BNMulAt(a, b, i + 1))

BNMul(a, b) == BNNorm(BNMulAt(a, b, 1))

\* floor(a / k) and a mod k for 0 < k < Base, from the top limb down
RECURSIVE BNDivSmallAt(_, _, _, _, _)
BNDivSmallAt(a, k, i, rem, quot) ==
  IF i = 0 THEN [q |-> BNNorm(quot), r |-> rem]
  ELSE BNDivSmallAt(a, k, i - 1, (rem * Base + a[i]) % k,
                    <<(rem * Base + a[i]) \div k>> \o quot)

BNDivSmall(a, k) == BNDivSmallAt(a, k, Len(a), 0, <<>>)

\* a * 2^n
BNShl(a, n) == BNShlLimbs(BNMulSmall(a, Pow2(n % 14)), n \div 14)

\* floor(a / 2^n)
BNShr(a, n) ==
  LET k == n \div 14
  IN  IF k >= Len(a) THEN <<>>
      ELSE BNDivSmall(SubSeq(a, k + 1, Len(a)), Pow2(n % 14)).q

RECURSIVE BitLenInt(_)
BitLenInt(n) == IF n = 0 THEN 0 ELSE 1 + BitLenInt(n \div 2)

BNBitLen(a) == IF a = <<>> THEN 0 ELSE 14 * (Len(a) - 1) + BitLenInt(a[Len(a)])

BNIsOdd(a) == a # <<>> /\ a[1] % 2 = 1

RECURSIVE BNPow10(_)
BNPow10(n) == IF n = 0 THEN <<1>> ELSE BNMulSmall(BNPow10(n - 1), 10)

(***************************************************************************)
(* JavaScript numbers (IEEE-754 binary64).  A finite value is              *)
(* s * m * 2^e; Zero is its own canonical record.                          *)
(***************************************************************************)
MantissaBits == 53

NaN == [k |-> "nan", s |-> 1, m |-> <<>>, e |-> 0]

Infinity(sign) == [k |-> "inf", s |-> sign, m |-> <<>>, e |-> 0]

Zero == [k |-> "fin", s |-> 1, m |-> <<>>, e |-> 0]

\* the exact dyadic value sign * m * 2^e, not rounded
Dyadic(sign, m, e) ==
  IF m = <<>> THEN Zero ELSE [k |-> "fin", s |-> sign, m |-> m, e |-> e]

Renormalize(sign, q, e) ==
  IF BNBitLen(q) > MantissaBits THEN Dyadic(sign, BNShr(q, 1), e + 1)
  ELSE Dyadic(sign, q, e)

\* c compares the bits dropped with half a unit of the last place kept
RoundQuotient(x, d, q, c) ==
  Renormalize(x.s,
              IF c = 1 \/ (c = 0 /\ BNIsOdd(q)) THEN BNAdd(q, <<1>>) ELSE q,
              x.e + d)

RoundDropping(x, d, q) ==
  RoundQuotient(x, d, q, BNCmp(BNSub(x.m, BNShl(q, d)), BNShl(<<1>>, d - 1)))

RoundAt(x, d) ==
  IF d <= 0 THEN Dyadic(x.s, BNShl(x.m, -d), x.e + d)
  ELSE RoundDropping(x, d, BNShr(x.m, d))

\* round-to-nearest, ties-to-even, to a MantissaBits-bit significand
FRound(x) ==
  IF x.k # "fin" \/ x.m = <<>> THEN x
  ELSE RoundAt(x, BNBitLen(x.m) - MantissaBits)

\* exact sum and product of finite values
SubAligned(sa, ma, sb, mb, e, c) ==
  IF c = 0 THEN Zero
  ELSE IF c = 1 THEN Dyadic(sa, BNSub(ma, mb), e)
  ELSE Dyadic(sb, BNSub(mb, ma), e)

AddAligned(sa, ma, sb, mb, e) ==
  IF sa = sb THEN Dyadic(sa, BNAdd(ma, mb), e)
  ELSE SubAligned(sa, ma, sb, mb, e, BNCmp(ma, mb))

XAdd(a, b) ==
  IF a.m = <<>> THEN b
  ELSE IF b.m = <<>> THEN a
  ELSE IF a.e < b.e
       THEN AddAligned(a.s, a.m, b.s, BNShl(b.m, b.e - a.e), a.e)
       ELSE AddAligned(a.s, BNShl(a.m, a.e - b.e), b.s, b.m, b.e)

XNeg(a) == IF a.m = <<>> THEN a ELSE [a EXCEPT !.s = -a.s]

XMul(a, b) == Dyadic(a.s * b.s, BNMul(a.m, b.m), a.e + b.e)

XAbs(a) == [a EXCEPT !.s = 1]

\* a <= b for finite values
XLeq(a, b) == XAdd(b, XNeg(a)).s = 1

isNaN(x) == x.k = "nan"

FNeg(a) ==
  IF a.k = "nan" THEN NaN
  ELSE IF a.k = "inf" THEN Infinity(-a.s)
  ELSE XNeg(a)

\* the + operator on numbers
FAdd(a, b) ==
  IF a.k = "nan" \/ b.k = "nan" THEN NaN
  ELSE IF a.k = "inf" /\ b.k = "inf" THEN (IF a.s = b.s THEN a ELSE NaN)
  ELSE IF a.k = "inf" THEN a
  ELSE IF b.k = "inf" THEN b
  ELSE FRound(XAdd(a, b))

\* the binary - operator on numbers
FSub(a, b) == FAdd(a, FNeg(b))

\* the * operator on numbers
FMul(a, b) ==
  IF a.k = "nan" \/ b.k = "nan" THEN NaN
  ELSE IF a.k = "inf" \/ b.k = "inf"
       THEN (IF (a.k = "fin" /\ a.m = <<>>) \/ (b.k = "fin" /\ b.m = <<>>)
             THEN NaN ELSE Infinity(a.s * b.s))
  ELSE FRound(XMul(a, b))

\* the odd part of a nonzero natural, and the number of factors 2 removed
RECURSIVE OddPart(_, _)
OddPart(m, t) ==
  IF BNIsOdd(m) THEN [m |-> m, t |-> t] ELSE OddPart(BNShr(m, 1), t + 1)

\* d: the significand shifted left 28 bits, divided by the divisor's odd part;
\* a last bit records a remainder
DivRounded(sign, d, e) ==
  FRound(Dyadic(sign, BNAdd(BNMulSmall(d.q, 2), IF d.r = 0 THEN <<>> ELSE <<1>>),
                e))

DivByOdd(a, b, o) ==
  CASE Len(o.m) = 1 ->
         DivRounded(a.s * b.s, BNDivSmall(BNShl(a.m, 28), o.m[1]),
                    a.e - 28 - 1 - (b.e + o.t))

\* the / operator on numbers, for a finite nonzero divisor whose odd part is
\* below Base (the program divides by the literal 180 only; parseFloat by a
\* power of ten)
FDiv(a, b) ==
  IF a.k = "nan" THEN NaN
  ELSE IF a.k = "inf" THEN Infinity(a.s * b.s)
  ELSE IF a.m = <<>> THEN Zero
  ELSE DivByOdd(a, b, OddPart(b.m, 0))

\* a small integer as a number
FInt(n) ==
  IF n < 0 THEN FRound(Dyadic(-1, BNOfInt(-n), 0))
  ELSE FRound(Dyadic(1, BNOfInt(n), 0))

(***************************************************************************)
(* Math.PI, Math.cos and Math.sin.  The library functions are given by     *)
(* their binary64 results at the radians values of the angles the model    *)
(* draws (0, 90, -90, 180, 360 degrees); any other finite argument         *)
(* has no entry, so evaluating it is an error rather than a guess.        *)
(***************************************************************************)
PiSignificand == <<11544, 4368, 8117, 1608>>

MathPI == Dyadic(1, PiSignificand, -51)

One == FInt(1)

\* the significand of cos(fl(pi/2)) = 6.123233995736766e-17
TinySignificand == <<7175, 3153, 8803, 1129>>

TrigTable ==
  { [r |-> Zero, cos |-> One, sin |-> Zero],
    [r |-> Dyadic(1, PiSignificand, -52),
     cos |-> Dyadic(1, TinySignificand, -106), sin |-> One],
    [r |-> Dyadic(-1, PiSignificand, -52),
     cos |-> Dyadic(1, TinySignificand, -106), sin |-> FNeg(One)],
    [r |-> Dyadic(1, PiSignificand, -51),
     cos |-> FNeg(One), sin |-> Dyadic(1, TinySignificand, -105)],
    [r |-> Dyadic(1, PiSignificand, -50),
     cos |-> One, sin |-> Dyadic(-1, TinySignificand, -104)] }

MathCos(r) ==
  IF r.k # "fin" THEN NaN ELSE (CHOOSE t \in TrigTable : t.r = r).cos

MathSin(r) ==
  IF r.k # "fin" THEN NaN ELSE (CHOOSE t \in TrigTable : t.r = r).sin

(***************************************************************************)
(* rotate (rotate.ts 13-28)                                                *)
(***************************************************************************)
\* Rotated turning clockwise: the signs of the sin terms exchanged
RotatedClockwise(dx, dy, cos, sin, cx, cy) ==
  << FAdd(FAdd(FMul(cos, dx), FMul(sin, dy)), cx),
     FAdd(FSub(FMul(cos, dy), FMul(sin, dx)), cy) >>

\* nx, ny of lines 24-25, with dx = x - cx and dy = y - cy
Rotated(dx, dy, cos, sin, cx, cy) ==
  << FAdd(FSub(FMul(cos, dx), FMul(sin, dy)), cx),
     FAdd(FAdd(FMul(sin, dx), FMul(cos, dy)), cy) >>

RotateBy(x, y, radians, cx, cy) ==
  Rotated(FSub(x, cx), FSub(y, cy), MathCos(radians), MathSin(radians), cx, cy)

rotate(x, y, angle, cx, cy) ==
  RotateBy(x, y, FDiv(FMul(angle, MathPI), FInt(180)), cx, cy)

(***************************************************************************)
(* String operations of the JavaScript library, on character sequences.    *)
(***************************************************************************)
IsSpace(c) == c \in {" ", "\t", "\n"}

RECURSIVE TrimStart(_)
TrimStart(str) ==
  IF str # <<>> /\ IsSpace(Head(str)) THEN TrimStart(Tail(str)) ELSE str

RECURSIVE TrimEnd(_)
TrimEnd(str) ==
  IF str # <<>> /\ IsSpace(str[Len(str)])
  THEN TrimEnd(SubSeq(str, 1, Len(str) - 1))
  ELSE str

\* String.prototype.trim
Trim(str) == TrimEnd(TrimStart(str))

\* an index of slice resolved against the length n
SliceIndex(i, n) ==
  IF i < 0 THEN (IF n + i < 0 THEN 0 ELSE n + i) ELSE (IF i > n THEN n ELSE i)

\* String.prototype.slice(from, to), either index negative or not
Slice(str, from, to) ==
  IF SliceIndex(from, Len(str)) >= SliceIndex(to, Len(str)) THEN <<>>
  ELSE SubSeq(str, SliceIndex(from, Len(str)) + 1, SliceIndex(to, Len(str)))

\* String.prototype.startsWith, for a one-character prefix
StartsWith(str, c) == str # <<>> /\ str[1] = c

\* the index of the first c at or after position i, 0 when there is none
RECURSIVE IndexFrom(_, _, _)
IndexFrom(str, c, i) ==
  IF i > Len(str) THEN 0
  ELSE IF str[i] = c THEN i
  ELSE IndexFrom(str, c, i + 1)

\* String.prototype.split(","): the empty string splits into one empty part
RECURSIVE SplitAt(_, _)
SplitAt(str, j) ==
  IF j = 0 THEN <<str>>
  ELSE <<SubSeq(str, 1, j - 1)>>
         \o SplitAt(SubSeq(str, j + 1, Len(str)),
                    IndexFrom(SubSeq(str, j + 1, Len(str)), ",", 1))

Split(str) == SplitAt(str, IndexFrom(str, ",", 1))

\* str.match(/\([^)]+\)/g) || []: the matches from position i on, in scan
\* order; j is the index of the first ")" after i, 0 when there is none
RECURSIVE MatchGroups(_, _)
MatchFrom(str, i, j) ==
  IF j = 0 \/ j = i + 1 THEN MatchGroups(str, i + 1)
  ELSE <<SubSeq(str, i, j)>> \o MatchGroups(str, j + 1)

MatchGroups(str, i) ==
  IF i > Len(str) THEN <<>>
  ELSE IF str[i] # "(" THEN MatchGroups(str, i + 1)
  ELSE MatchFrom(str, i, IndexFrom(str, ")", i + 1))

(***************************************************************************)
(* parseFloat: leading white space is skipped, then the longest prefix     *)
(* that is a decimal literal (sign, "Infinity" or digits with an optional  *)
(* fraction) is converted and the rest ignored; NaN when there is no such  *)
(* prefix.  Exponent parts are not modelled: no drawn text holds e or E.   *)
(***************************************************************************)
Digits == {"0", "1", "2", "3", "4", "5", "6", "7", "8", "9"}

DigitValue(c) ==
  CASE c = "0" -> 0 [] c = "1" -> 1 [] c = "2" -> 2 [] c = "3" -> 3
    [] c = "4" -> 4 [] c = "5" -> 5 [] c = "6" -> 6 [] c = "7" -> 7
    [] c = "8" -> 8 [] c = "9" -> 9

InfinityWord == <<"I", "n", "f", "i", "n", "i", "t", "y">>

\* the number of leading digits of str
RECURSIVE DigitRun(_)
DigitRun(str) ==
  IF str # <<>> /\ Head(str) \in Digits THEN 1 + DigitRun(Tail(str)) ELSE 0

\* the natural number a digit string denotes
RECURSIVE DigitsValue(_)
DigitsValue(ds) ==
  IF ds = <<>> THEN <<>>
  ELSE BNAdd(BNMulSmall(DigitsValue(SubSeq(ds, 1, Len(ds) - 1)), 10),
             BNOfInt(DigitValue(ds[Len(ds)])))

\* ni digits, then nf digits after a "."
ParseDecimal(sign, u, ni, nf) ==
  IF ni + nf = 0 THEN NaN
  ELSE FDiv(FRound(Dyadic(sign,
                          DigitsValue(SubSeq(u, 1, ni)
                                        \o SubSeq(u, ni + 2, ni + 1 + nf)),
                          0)),
            FRound(Dyadic(1, BNPow10(nf), 0)))

ParseDigits(sign, u, ni) ==
  ParseDecimal(sign, u, ni,
               IF ni < Len(u) /\ u[ni + 1] = "."
               THEN DigitRun(SubSeq(u, ni + 2, Len(u))) ELSE 0)

ParseUnsigned(sign, u) ==
  IF Len(u) >= 8 /\ SubSeq(u, 1, 8) = InfinityWord THEN Infinity(sign)
  ELSE ParseDigits(sign, u, DigitRun(u))

ParseSigned(t) ==
  ParseUnsigned(IF StartsWith(t, "-") THEN -1 ELSE 1,
                IF StartsWith(t, "-") \/ StartsWith(t, "+") THEN Tail(t) ELSE t)

parseFloat(str) == ParseSigned(TrimStart(str))

(***************************************************************************)
(* parsePoint (rotate.ts 71-86): <<x, y>>, or Null                         *)
(***************************************************************************)
Null == <<>>

\* lines 83-85
PointOf(x, y) == IF isNaN(x) \/ isNaN(y) THEN Null ELSE <<x, y>>

\* lines 76-81; parts are the pieces before their trim
PointOfParts(parts) ==
  IF Len(parts) # 2 THEN Null
  ELSE PointOf(parseFloat(Trim(parts[1])), parseFloat(Trim(parts[2])))

parsePoint(pointStr) == PointOfParts(Split(Trim(Slice(pointStr, 1, -1))))

(***************************************************************************)
(* A call's outcome: the value returned, or the message of the Error       *)
(* thrown.  A message is the sequence of its template's pieces and the     *)
(* characters of the text embedded between them.                           *)
(***************************************************************************)
Returned(v) == [threw |-> FALSE, value |-> v, message |-> <<>>]

Thrown(msg) == [threw |-> TRUE, value |-> <<>>, message |-> msg]

\* if (parsed) points.push(parsed), for each candidate in order
PushIf(parsed) == IF parsed # Null THEN <<parsed>> ELSE <<>>

\* PushParsed putting each point in front of the earlier ones
RECURSIVE PushReversed(_)
PushReversed(pointMatches) ==
  IF pointMatches = <<>> THEN <<>>
  ELSE PushReversed(Tail(pointMatches)) \o PushIf(parsePoint(Head(pointMatches)))

RECURSIVE PushParsed(_)
PushParsed(pointMatches) ==
  IF pointMatches = <<>> THEN <<>>
  ELSE PushIf(parsePoint(Head(pointMatches))) \o PushParsed(Tail(pointMatches))

(***************************************************************************)
(* parsePoints (rotate.ts 37-64)                                           *)
(***************************************************************************)
\* PointsOrThrow without the test for an empty list
PointsReturned(pointsStr, points) == Returned(points)

\* lines 57-63
PointsOrThrow(pointsStr, points) ==
  IF Len(points) = 0
  THEN Thrown(<<"Invalid points format: ">> \o pointsStr
                \o <<". Use \"(x,y)\" or \"[(x,y) (x,y)]\".">>)
  ELSE Returned(points)

\* lines 43-55, pointsStr trimmed
CollectPoints(pointsStr) ==
  IF StartsWith(pointsStr, "[")
  THEN PushParsed(MatchGroups(Trim(Slice(pointsStr, 1, -1)), 1))
  ELSE IF StartsWith(pointsStr, "(") THEN PushParsed(<<pointsStr>>)
  ELSE <<>>

ParseTrimmed(pointsStr) == PointsOrThrow(pointsStr, CollectPoints(pointsStr))

parsePoints(arg) == ParseTrimmed(Trim(arg))

(***************************************************************************)
(* parseCenter (rotate.ts 93-103)                                          *)
(***************************************************************************)
ThrowCenter(centerStr) ==
  Thrown(<<"Invalid center format: ">> \o centerStr
           \o <<". Use \"(cx,cy)\" or pass separate cx cy.">>)

CenterOf(centerStr, parsed) ==
  IF parsed # Null THEN Returned(<<parsed[1], parsed[2]>>)
  ELSE ThrowCenter(centerStr)

parseCenter(centerStr) ==
  IF StartsWith(centerStr, "(") THEN CenterOf(centerStr, parsePoint(centerStr))
  ELSE ThrowCenter(centerStr)

(***************************************************************************)
(* Input texts.  A text is the concatenation of at most a                  *)
(* bounded number of tokens.                                               *)
(***************************************************************************)
MaxTokens == 4

MaxLen == 6

MaxCliTokens == 3

MaxCoord == 1

RECURSIVE Flatten(_)
Flatten(ts) == IF ts = <<>> THEN <<>> ELSE Head(ts) \o Flatten(Tail(ts))

Texts(tokens, n) ==
  { Flatten(ts) : ts \in UNION { [1..k -> tokens] : k \in 0..n } }

G12 == <<"(", "1", ",", "2", ")">>

GNeg21 == <<"(", "-", "2", ",", "1", ")">>

G1a == <<"(", "1", ",", "a", ")">>

\* arguments of parsePoints
PointsTokens ==
  { <<"[">>, <<"]">>, <<"(">>, <<")">>, <<" ">>, <<"a">>, G12, GNeg21, G1a }

\* arguments of parsePoint
PointTokens ==
  { <<"(">>, <<")">>, <<",">>, <<" ">>, <<"1">>, <<"a">>, <<"-">>, InfinityWord }

\* arguments of parseCenter
CenterTokens ==
  { <<"(">>, <<")">>, <<",">>, <<" ">>, <<"1">>, <<"a">>, <<"[">>, <<"]">> }

\* the command's <points>, <angle> and <center> arguments
CliPointsTokens == { <<"[">>, <<"]">>, <<"a">>, G12, GNeg21 }

CliAngles ==
  { <<"0">>, <<"9", "0">>, <<"-", "9", "0">>, <<"1", "8", "0">>,
    <<"3", "6", "0">>, <<>>, <<"a">>, InfinityWord }

CliCenters ==
  { <<"(", "0", ",", "0", ")">>, G12, G1a, <<" ">> \o G12, <<"a">>,
    <<"(">> \o InfinityWord \o <<",", "0", ")">> }

\* 0.1, the nearest binary64 value to one tenth
Tenth == parseFloat(<<"0", ".", "1">>)

\* coordinates and angles rotate is called with
Coords ==
  { FInt(n) : n \in (0 - MaxCoord)..MaxCoord }
    \cup { Tenth, FInt(1000), FInt(-1000), FInt(20000) }

Angles == { FInt(0), FInt(90), FInt(-90), FInt(180), FInt(360) }

(***************************************************************************)
(* State.  The handler of the rotate command (rotate.ts 119-152) runs once *)
(* per process; pc is its position.  fn, arg, ret and done are a direct    *)
(* call of one exported function on a drawn argument.                      *)
(***************************************************************************)
VARIABLES pc, pointsStr, angleStr, centerStr, points, angle, center,
          rotatedPoints, rotateCalls, error, stdout, stderr, exitCode,
          fn, arg, ret, done

cliVars == <<pc, pointsStr, angleStr, centerStr, points, angle, center,
             rotatedPoints, rotateCalls, error, stdout, stderr, exitCode>>

callVars == <<fn, arg, ret, done>>

vars == <<cliVars, callVars>>

NoCall == fn = "none" /\ arg = <<>> /\ ret = <<>> /\ done = TRUE

NoCli ==
  /\ pc = "idle"
  /\ pointsStr = <<>> /\ angleStr = <<>> /\ centerStr = <<>>
  /\ points = <<>> /\ angle = NaN /\ center = <<>>
  /\ rotatedPoints = <<>> /\ rotateCalls = 0 /\ error = <<>>
  /\ stdout = <<>> /\ stderr = <<>> /\ exitCode = 0

Init ==
  /\ pc = "parsePoints"
  /\ pointsStr \in Texts(CliPointsTokens, MaxCliTokens)
  /\ angleStr \in CliAngles
  /\ centerStr \in CliCenters
  /\ points = <<>> /\ angle = NaN /\ center = <<>>
  /\ rotatedPoints = <<>> /\ rotateCalls = 0 /\ error = <<>>
  /\ stdout = <<>> /\ stderr = <<>> /\ exitCode = 0
  /\ NoCall

\* const points = parsePoints(pointsStr);  (121)
Outcome(r, var, next) ==
  IF r.threw
  THEN error' = r.message /\ pc' = "catch" /\ var' = var
  ELSE var' = r.value /\ pc' = next /\ UNCHANGED error

StepParsePoints ==
  /\ pc = "parsePoints"
  /\ Outcome(parsePoints(pointsStr), points, "parseAngle")
  /\ UNCHANGED <<pointsStr, angleStr, centerStr, angle, center, rotatedPoints,
                 rotateCalls, stdout, stderr, exitCode, callVars>>

\* const angle = parseFloat(angleStr);  (122)
StepParseAngle ==
  /\ pc = "parseAngle"
  /\ angle' = parseFloat(angleStr)
  /\ pc' = "parseCenter"
  /\ UNCHANGED <<pointsStr, angleStr, centerStr, points, center, rotatedPoints,
                 rotateCalls, error, stdout, stderr, exitCode, callVars>>

\* const [cx, cy] = parseCenter(centerStr);  (123)
StepParseCenter ==
  /\ pc = "parseCenter"
  /\ Outcome(parseCenter(centerStr), center, "validate")
  /\ UNCHANGED <<pointsStr, angleStr, centerStr, points, angle, rotatedPoints,
                 rotateCalls, stdout, stderr, exitCode, callVars>>

\* StepValidate with the isNaN test left out
StepValidateNothing ==
  /\ pc = "validate"
  /\ pc' = "rotate"
  /\ UNCHANGED <<pointsStr, angleStr, centerStr, points, angle, center, error,
                 rotatedPoints, rotateCalls, stdout, stderr, exitCode, callVars>>

\* if (isNaN(angle) || isNaN(cx) || isNaN(cy)) throw ...  (125-127)
StepValidate ==
  /\ pc = "validate"
  /\ IF isNaN(angle) \/ isNaN(center[1]) \/ isNaN(center[2])
     THEN error' = <<"Angle or center must be valid numbers.">> /\ pc' = "catch"
     ELSE pc' = "rotate" /\ UNCHANGED error
  /\ UNCHANGED <<pointsStr, angleStr, centerStr, points, angle, center,
                 rotatedPoints, rotateCalls, stdout, stderr, exitCode, callVars>>

\* points.map(([x, y]) => rotate(x, y, angle, cx, cy))  (129-131)
StepRotate ==
  /\ pc = "rotate"
  /\ rotatedPoints' =
       [i \in 1..Len(points) |->
          rotate(points[i][1], points[i][2], angle, center[1], center[2])]
  /\ rotateCalls' = rotateCalls + Len(points)
  /\ pc' = "print"
  /\ UNCHANGED <<pointsStr, angleStr, centerStr, points, angle, center,
                 error, stdout, stderr, exitCode, callVars>>

\* console.log(`New coordinates: ...`), one point bare and several in
\* brackets (137-147); the line keeps the numbers, not formatCoord's digits
StepPrint ==
  /\ pc = "print"
  /\ stdout' = Append(stdout,
       [line   |-> "New coordinates",
        shape  |-> IF Len(points) = 1 THEN "single" ELSE "list",
        coords |-> rotatedPoints])
  /\ pc' = "done"
  /\ UNCHANGED <<pointsStr, angleStr, centerStr, points, angle, center,
                 rotatedPoints, rotateCalls, error, stderr, exitCode, callVars>>

\* catch (error) { console.error("Error:", message); process.exit(1); }  (148-151)
StepCatch ==
  /\ pc = "catch"
  /\ stderr' = Append(stderr, <<"Error:">> \o error)
  /\ exitCode' = 1
  /\ pc' = "exited"
  /\ UNCHANGED <<pointsStr, angleStr, centerStr, points, angle, center,
                 rotatedPoints, rotateCalls, error, stdout, callVars>>

Next ==
  \/ StepParsePoints
  \/ StepParseAngle
  \/ StepParseCenter
  \/ StepValidate
  \/ StepRotate
  \/ StepPrint
  \/ StepCatch

Spec == Init /\ [][Next]_vars

(***************************************************************************)
(* Direct calls of the exported functions.                                 *)
(***************************************************************************)
InitCall(name, args) ==
  NoCli /\ fn = name /\ arg \in args /\ ret = <<>> /\ done = FALSE

Call(name, result) ==
  /\ fn = name /\ ~done
  /\ ret' = result
  /\ done' = TRUE
  /\ UNCHANGED <<cliVars, fn, arg>>

CallParsePoint == Call("parsePoint", parsePoint(arg))

SpecParsePoint ==
  InitCall("parsePoint", Texts(PointTokens, MaxLen)) /\ [][CallParsePoint]_vars

CallParsePoints == Call("parsePoints", parsePoints(arg))

SpecParsePoints ==
  InitCall("parsePoints", Texts(PointsTokens, MaxTokens))
    /\ [][CallParsePoints]_vars

CallParseCenter == Call("parseCenter", parseCenter(arg))

SpecParseCenter ==
  InitCall("parseCenter", Texts(CenterTokens, MaxLen)) /\ [][CallParseCenter]_vars

CallRotate == Call("rotate", rotate(arg[1], arg[2], arg[3], arg[4], arg[5]))

SpecRotate ==
  InitCall("rotate", Coords \X Coords \X Angles \X Coords \X Coords)
    /\ [][CallRotate]_vars

(***************************************************************************)
(* Vocabulary of the properties.                                           *)
(***************************************************************************)
Called(name) == fn = name /\ done

\* t is str without its leading and trailing white space
IsTrimmedOf(t, str) ==
  \E i \in 0..Len(str) : \E j \in i..Len(str) :
    /\ t = SubSeq(str, i + 1, j)
    /\ \A k \in 1..i : IsSpace(str[k])
    /\ \A k \in (j + 1)..Len(str) : IsSpace(str[k])
    /\ t = <<>> \/ (~IsSpace(t[1]) /\ ~IsSpace(t[Len(t)]))

InvalidPoints(t) ==
  <<"Invalid points format: ">> \o t \o <<". Use \"(x,y)\" or \"[(x,y) (x,y)]\".">>

InvalidCenter(t) ==
  <<"Invalid center format: ">> \o t \o <<". Use \"(cx,cy)\" or pass separate cx cy.">>

IsPoint(p) == Len(p) = 2 /\ p[1].k \in {"fin", "inf"} /\ p[2].k \in {"fin", "inf"}

\* a text that opens with "[" and closes with "]"
Bracketed(t) == Len(t) >= 2 /\ t[1] = "[" /\ t[Len(t)] = "]"

\* the text between the first and the last character
Interior(t) == IF Len(t) <= 2 THEN <<>> ELSE SubSeq(t, 2, Len(t) - 1)

Least(S) == CHOOSE i \in S : \A k \in S : i <= k

\* The points of the candidates of str, by their closing parentheses: a
\* candidate ends at a ")" in position j and starts at the first "(" after
\* the ")" before it (in position p, 0 when there is none).
RECURSIVE PointsOfCandidates(_, _, _)
PointsOfCandidates(str, j, p) ==
  IF j > Len(str) THEN <<>>
  ELSE IF str[j] # ")" THEN PointsOfCandidates(str, j + 1, p)
  ELSE LET opens == { i \in (p + 1)..(j - 1) : str[i] = "(" }
           point == parsePoint(SubSeq(str, Least(opens), j))
       IN  (IF opens # {} /\ point # Null THEN <<point>> ELSE <<>>)
             \o PointsOfCandidates(str, j + 1, j)

\* a sign, then "Infinity" or digits with at most one "."
IsNumericLiteral(part) ==
  LET u == IF part # <<>> /\ part[1] \in {"-", "+"} THEN Tail(part) ELSE part
  IN  \/ u = InfinityWord
      \/ /\ \A k \in 1..Len(u) : u[k] \in Digits \cup {"."}
         /\ Cardinality({ k \in 1..Len(u) : u[k] = "." }) <= 1
         /\ \E k \in 1..Len(u) : u[k] \in Digits

\* str holds exactly one comma, with a numeric literal on either side
TwoNumericParts(str) ==
  LET commas == { k \in 1..Len(str) : str[k] = "," }
      c      == Least(commas)
  IN  /\ Cardinality(commas) = 1
      /\ IsNumericLiteral(Trim(SubSeq(str, 1, c - 1)))
      /\ IsNumericLiteral(Trim(SubSeq(str, c + 1, Len(str))))

\* positions i < j of str delimit a group "(x,y)" of two numeric literals
WellFormedGroup(str, i, j) ==
  /\ str[i] = "(" /\ str[j] = ")"
  /\ \A k \in (i + 1)..(j - 1) : str[k] \notin {"(", ")"}
  /\ TwoNumericParts(SubSeq(str, i + 1, j - 1))

\* |a - b| <= 1e-12, for numbers a and exact values b
WithinTolerance(a, b) ==
  /\ a.k = "fin"
  /\ LET d == XAdd(a, XNeg(b))
     IN  \/ d.m = <<>>
         \/ /\ d.e < 0
            /\ BNCmp(BNMul(d.m, BNPow10(12)), BNShl(<<1>>, -d.e)) <= 0

\* the exact image of (x, y) under a turn of angle degrees about (cx, cy),
\* angle a multiple of 90
ExactImage(x, y, a, cx, cy) ==
  LET dx == XAdd(x, XNeg(cx))
      dy == XAdd(y, XNeg(cy))
  IN  CASE a = FInt(90)  -> <<XAdd(cx, XNeg(dy)), XAdd(cy, dx)>>
        [] a = FInt(180) -> <<XAdd(cx, XNeg(dx)), XAdd(cy, XNeg(dy))>>
        [] a = FInt(-90) -> <<XAdd(cx, dy), XAdd(cy, XNeg(dx))>>
        [] a = FInt(360) -> <<x, y>>

QuarterTurns == { FInt(90), FInt(180), FInt(-90), FInt(360) }

CoordLimit == FInt(1000)

WithinLimit(v) == XLeq(XAbs(v), CoordLimit)

\* one of the handler's three validations fails on the arguments given
ValidationFails ==
  \/ parsePoints(pointsStr).threw
  \/ isNaN(parseFloat(angleStr))
  \/ parseCenter(centerStr).threw

(***************************************************************************)
(* C1.  parsePoints(s) returns a list of at least one point, or fails with *)
(* the Invalid points format message embedding s without its surrounding   *)
(* white space; it never returns an empty list.                            *)
(***************************************************************************)
C1_NonEmptyOrInvalidPoints ==
  Called("parsePoints") =>
    IF ret.threw
    THEN /\ Len(ret.message) >= 2
         /\ ret.message = InvalidPoints(SubSeq(ret.message, 2, Len(ret.message) - 1))
         /\ IsTrimmedOf(SubSeq(ret.message, 2, Len(ret.message) - 1), arg)
    ELSE Len(ret.value) >= 1 /\ \A k \in 1..Len(ret.value) : IsPoint(ret.value[k])

\* a bracketed argument with white space around it is rejected
C1_Witness ==
  /\ Called("parsePoints") /\ ret.threw
  /\ Len(arg) >= 4 /\ IsSpace(arg[1]) /\ IsSpace(arg[Len(arg)])
  /\ arg[2] = "[" /\ arg[Len(arg) - 1] = "]"

(***************************************************************************)
(* C2.  For a bracketed argument parsePoints returns exactly the points of *)
(* the parenthesis-delimited candidates of the interior on which           *)
(* parsePoint succeeds, in scan order and with duplicates kept; it fails   *)
(* when there is none.                                                     *)
(***************************************************************************)
C2_BracketedPointsInScanOrder ==
  Called("parsePoints") /\ Bracketed(Trim(arg)) =>
    LET expected == PointsOfCandidates(Interior(Trim(arg)), 1, 0)
    IN  IF expected = <<>> THEN ret.threw ELSE ret = Returned(expected)

\* two different points, kept in the order of the text
C2_Witness ==
  /\ Called("parsePoints") /\ Bracketed(Trim(arg)) /\ ~ret.threw
  /\ Len(ret.value) = 2 /\ ret.value[1] # ret.value[2]

(***************************************************************************)
(* C3.  Within a bracketed set every well-formed point group (x,y) is in   *)
(* the result whatever stands before or after it inside the brackets, and  *)
(* the call does not fail.                                                 *)
(***************************************************************************)
C3_GoodGroupsSurviveGarbage ==
  Called("parsePoints") /\ Bracketed(Trim(arg)) =>
    LET inner == Interior(Trim(arg))
    IN  \A i \in 1..Len(inner) : \A j \in (i + 1)..Len(inner) :
          WellFormedGroup(inner, i, j) =>
            /\ ~ret.threw
            /\ \E k \in 1..Len(ret.value) :
                 ret.value[k] = parsePoint(SubSeq(inner, i, j))

(***************************************************************************)
(* C4.  parsePoint(text) returns a point exactly when the text between its *)
(* first and last character splits on commas into exactly two parts, each  *)
(* a numeric literal once trimmed; otherwise it returns null.              *)
(***************************************************************************)
C4_PointIffTwoNumericLiterals ==
  Called("parsePoint") =>
    /\ ret # Null <=> TwoNumericParts(Interior(arg))
    /\ ret # Null => Len(ret) = 2

(***************************************************************************)
(* C5.  Every coordinate of a point that parsePoint returns is a finite    *)
(* number: neither NaN nor an infinity.                                    *)
(***************************************************************************)
C5_CoordinatesFinite ==
  Called("parsePoint") /\ ret # Null => ret[1].k = "fin" /\ ret[2].k = "fin"

(***************************************************************************)
(* C6.  parseCenter(text) returns the point when the trimmed text begins   *)
(* with "(" and parsePoint succeeds on it, and otherwise fails with the    *)
(* Invalid center format message embedding the text as received.           *)
(***************************************************************************)
C6_CenterOfTrimmedText ==
  Called("parseCenter") =>
    IF StartsWith(Trim(arg), "(") /\ parsePoint(Trim(arg)) # Null
    THEN ~ret.threw /\ ret.value = parsePoint(Trim(arg))
    ELSE ret.threw /\ ret.message = InvalidCenter(arg)

(***************************************************************************)
(* C7.  rotate(x, y, 0, cx, cy) equals (x, y) exactly, and                 *)
(* rotate(cx, cy, angle, cx, cy) equals (cx, cy) exactly.                  *)
(***************************************************************************)
C7_ExactNoOp ==
  Called("rotate") =>
    /\ arg[3] = Zero => ret = <<arg[1], arg[2]>>
    /\ arg[1] = arg[4] /\ arg[2] = arg[5] => ret = <<arg[4], arg[5]>>

(***************************************************************************)
(* C8.  A rotation by 90, 180, -90 or 360 degrees yields                   *)
(* (cx - dy, cy + dx), (cx - dx, cy - dy), (cx + dy, cy - dx) or (x, y),   *)
(* each coordinate within 1e-12.                                           *)
(***************************************************************************)
C8_QuarterTurnsWithinTolerance ==
  Called("rotate") /\ arg[3] \in QuarterTurns =>
    LET image == ExactImage(arg[1], arg[2], arg[3], arg[4], arg[5])
    IN  WithinTolerance(ret[1], image[1]) /\ WithinTolerance(ret[2], image[2])

(***************************************************************************)
(* C8, amended.  The same, for x, y, cx and cy of magnitude at most 1000.  *)
(***************************************************************************)
C8_QuarterTurnsWithinToleranceUpTo1000 ==
  /\ Called("rotate") /\ arg[3] \in QuarterTurns
  /\ WithinLimit(arg[1]) /\ WithinLimit(arg[2])
  /\ WithinLimit(arg[4]) /\ WithinLimit(arg[5])
  =>
    LET image == ExactImage(arg[1], arg[2], arg[3], arg[4], arg[5])
    IN  WithinTolerance(ret[1], image[1]) /\ WithinTolerance(ret[2], image[2])

\* (1000, -1000) turned by 360 degrees about (0.1, 1): the result is not the
\* point itself
C8_Witness ==
  /\ Called("rotate")
  /\ arg = <<FInt(1000), FInt(-1000), FInt(360), Tenth, FInt(1)>>
  /\ ret # <<arg[1], arg[2]>>

(***************************************************************************)
(* C9.  parsePoints returns only for trimmed input that is a single        *)
(* parenthesized point or a bracketed set closed by "]": an input that     *)
(* opens with "[" and does not end with "]" is rejected.                   *)
(***************************************************************************)
C9_UnclosedSetRejected ==
  Called("parsePoints") /\ ~ret.threw =>
    StartsWith(Trim(arg), "(") \/ Bracketed(Trim(arg))

(***************************************************************************)
(* C10.  In the rotate command rotate is called and a New coordinates line *)
(* printed only after parsePoints returned a non-empty list, the angle     *)
(* parsed to a number that is not NaN and parseCenter returned a point;    *)
(* when one of the three fails rotate is never called, nothing is printed  *)
(* to the output, one error message is printed and the exit code is 1.     *)
(***************************************************************************)
C10_RotateOnlyAfterValidation ==
  /\ rotateCalls > 0 \/ stdout # <<>> =>
       /\ pc \in {"print", "done"}
       /\ Len(points) >= 1 /\ ~isNaN(angle) /\ Len(center) = 2
       /\ rotateCalls = Len(points)
  /\ pc \in {"rotate", "print", "done"} => ~ValidationFails
  /\ Len(stdout) <= 1
  /\ pc = "done" => Len(stdout) = 1 /\ stderr = <<>>
  /\ pc = "exited" =>
       rotateCalls = 0 /\ stdout = <<>> /\ Len(stderr) = 1 /\ exitCode = 1
  /\ pc # "exited" => stderr = <<>> /\ exitCode = 0

\* the points and the center parse, the angle does not: the command exits
C10_Witness ==
  /\ pc = "exited" /\ exitCode = 1
  /\ ~parsePoints(pointsStr).threw /\ ~parseCenter(centerStr).threw
  /\ isNaN(angle) /\ rotateCalls = 0

=============================================================================
